---------------------------- MODULE Spec2Model ----------------------------
(***************************************************************************)
(* Model of the asset-registry package-data codec                          *)
(* (unreal_asset_registry/src/objects/asset_package_data.rs) and of the    *)
(* locking discipline of the mod manager's process_modfiles                *)
(* (unreal_mod_manager/src/mod_processing/mod.rs).                         *)
(*                                                                         *)
(* Archives are sequences of bytes (0..255).  Option<T> is a sequence of   *)
(* length at most one: None is <<>>, Some(v) is <<v>>.                     *)
(***************************************************************************)
EXTENDS Integers, Sequences, FiniteSets, TLC

None == <<>>
Some(v) == <<v>>
IsSome(o) == o # None
Unwrap(o) == o[1]

\* `let x = e; Body(x)`: e is evaluated once and its value bound
Let(e, Body(_)) == CHOOSE y \in {Body(x) : x \in {e}} : TRUE

(***************************************************************************)
(* Version enumerations (unreal_asset_base, ordinal values of the engine's *)
(* FAssetRegistryVersionType and EUnrealEngineObjectUE5Version).           *)
(***************************************************************************)
AddedCookedMD5Hash == 6
WorkspaceDomain == 9
PackageImportedClasses == 10
PackageFileSummaryVersionChange == 11
ASSETREGISTRY_PACKAGEBUILDDEPENDENCIES == 1013

(***************************************************************************)
(* Bounds of the model.                                                    *)
(***************************************************************************)
\* longest sequence field (custom_versions, imported_classes, build deps)
MaxSeqLen == 1
\* how many trailing bytes an input archive may be short of a full record
MaxCut == 1

RegistryVersions == (AddedCookedMD5Hash - 1) .. (PackageFileSummaryVersionChange + 1)
ObjectVersions == (ASSETREGISTRY_PACKAGEBUILDDEPENDENCIES - 1) .. (ASSETREGISTRY_PACKAGEBUILDDEPENDENCIES + 1)

(***************************************************************************)
(* Little-endian primitives (byteorder's read_/write_ ::<LE>).  TLC's      *)
(* integers are 32 bit wide, so i64 and u32 values are kept below 2^31 in  *)
(* magnitude; the byte layout is the real one.                             *)
(***************************************************************************)
Pow256(k) == CASE k = 0 -> 1 [] k = 1 -> 256 [] k = 2 -> 65536 [] k = 3 -> 16777216

ByteOf(v, k) ==
    IF v >= 0 THEN (v \div Pow256(k)) % 256
    ELSE 255 - (((-v - 1) \div Pow256(k)) % 256)

I32LE(v) == [k \in 1..4 |-> ByteOf(v, k - 1)]
U32LE(v) == [k \in 1..4 |-> ByteOf(v, k - 1)]
I64LE(v) == I32LE(v) \o [k \in 1..4 |-> IF v < 0 THEN 255 ELSE 0]

FromI32LE(b) ==
    IF b[4] >= 128
    THEN -((255 - b[1]) + (255 - b[2]) * 256 + (255 - b[3]) * 65536
           + (255 - b[4]) * 16777216) - 1
    ELSE b[1] + b[2] * 256 + b[3] * 65536 + b[4] * 16777216
FromU32LE(b) == b[1] + b[2] * 256 + b[3] * 65536 + b[4] * 16777216
FromI64LE(b) == FromI32LE(SubSeq(b, 1, 4))

(***************************************************************************)
(* Primitive archive, reading side.  A read returns [ok, val, pos]; a      *)
(* short read is an Io error and leaves the cursor where it was.           *)
(***************************************************************************)
IoError == [kind |-> "Io"]
FormatError == [kind |-> "Format"]

read_exact(bytes, pos, n) ==
    IF pos + n <= Len(bytes)
    THEN [ok |-> TRUE, val |-> SubSeq(bytes, pos + 1, pos + n), pos |-> pos + n]
    ELSE [ok |-> FALSE, val |-> IoError, pos |-> pos]

read_i32(bytes, pos) ==
    Let(read_exact(bytes, pos, 4), LAMBDA r :
        IF r.ok THEN [r EXCEPT !.val = FromI32LE(r.val)] ELSE r)

read_u32(bytes, pos) ==
    Let(read_exact(bytes, pos, 4), LAMBDA r :
        IF r.ok THEN [r EXCEPT !.val = FromU32LE(r.val)] ELSE r)

read_i64(bytes, pos) ==
    Let(read_exact(bytes, pos, 8), LAMBDA r :
        IF r.ok THEN [r EXCEPT !.val = FromI64LE(r.val)] ELSE r)

read_guid(bytes, pos) == read_exact(bytes, pos, 16)

\* Name on the wire: u32 pool index, u32 instance number
read_fname(bytes, pos) ==
    Let(read_u32(bytes, pos), LAMBDA i :
        IF ~i.ok THEN i
        ELSE Let(read_u32(bytes, i.pos), LAMBDA n :
                 IF ~n.ok THEN [n EXCEPT !.pos = pos]
                 ELSE [ok |-> TRUE, val |-> [index |-> i.val, number |-> n.val],
                       pos |-> n.pos]))

\* FMD5Hash::new: sixteen raw bytes
FMD5Hash_new(bytes, pos) == read_exact(bytes, pos, 16)

\* CustomVersion::read: guid, then i32 revision
CustomVersion_read(bytes, pos) ==
    Let(read_guid(bytes, pos), LAMBDA g :
        IF ~g.ok THEN g
        ELSE Let(read_i32(bytes, g.pos), LAMBDA v :
                 IF ~v.ok THEN [v EXCEPT !.pos = pos]
                 ELSE [ok |-> TRUE, val |-> [guid |-> g.val, version |-> v.val],
                       pos |-> v.pos]))

read_element(kind, bytes, pos) ==
    IF kind = "CustomVersion" THEN CustomVersion_read(bytes, pos)
    ELSE read_fname(bytes, pos)

RECURSIVE read_elements(_, _, _, _)
read_elements(kind, bytes, pos, n) ==
    IF n = 0 THEN [ok |-> TRUE, val |-> <<>>, pos |-> pos]
    ELSE Let(read_element(kind, bytes, pos), LAMBDA e :
             IF ~e.ok THEN e
             ELSE Let(read_elements(kind, bytes, e.pos, n - 1), LAMBDA rest :
                      IF ~rest.ok THEN rest
                      ELSE [ok |-> TRUE, val |-> <<e.val>> \o rest.val,
                            pos |-> rest.pos]))

\* read_array: i32 count, then count elements
read_array(kind, bytes, pos) ==
    Let(read_i32(bytes, pos), LAMBDA c :
        IF ~c.ok THEN c
        ELSE IF c.val < 0 THEN [ok |-> FALSE, val |-> FormatError, pos |-> pos]
        ELSE Let(read_elements(kind, bytes, c.pos, c.val), LAMBDA r :
                 IF r.ok THEN r ELSE [r EXCEPT !.pos = pos]))

read_fname_array(bytes, pos) == read_array("FName", bytes, pos)
read_custom_version_array(bytes, pos) == read_array("CustomVersion", bytes, pos)

(***************************************************************************)
(* Primitive archive, writing side: every write appends.                   *)
(***************************************************************************)
write_fname(name) == U32LE(name.index) \o U32LE(name.number)
FMD5Hash_write(hash) == hash
CustomVersion_write(cv) == cv.guid \o I32LE(cv.version)

RECURSIVE write_each(_, _)
write_each(kind, s) ==
    IF s = <<>> THEN <<>>
    ELSE (IF kind = "CustomVersion" THEN CustomVersion_write(Head(s))
          ELSE write_fname(Head(s)))
         \o write_each(kind, Tail(s))


write_array(kind, s) == I32LE(Len(s)) \o write_each(kind, s)

(***************************************************************************)
(* AssetPackageData (struct, lines 20-46).  OptionFields are the fields    *)
(* declared Option<..>; file_version, file_version_licensee_ue and flags   *)
(* are plain integers.                                                     *)
(***************************************************************************)
OptionFields == {"cooked_hash", "imported_classes", "ue5_version",
                 "custom_versions", "package_build_dependencies"}
PlainGatedFields == {"file_version", "file_version_licensee_ue", "flags"}
WireFields == {"package_name", "disk_size", "package_guid"}
                 \cup OptionFields \cup PlainGatedFields

AssetPackageData(l, version) ==
    [package_name |-> l.package_name,
     package_guid |-> l.package_guid,
     cooked_hash |-> l.cooked_hash,
     imported_classes |-> l.imported_classes,
     disk_size |-> l.disk_size,
     file_version |-> l.file_version,
     ue5_version |-> l.ue5_version,
     file_version_licensee_ue |-> l.file_version_licensee_ue,
     custom_versions |-> l.custom_versions,
     flags |-> l.flags,
     package_build_dependencies |-> l.package_build_dependencies,
     version |-> version]

(***************************************************************************)
(* AssetPackageData::new.  The decoding state st carries the archive       *)
(* (bytes, pos, object_version_ue5), the first error (the `?` operator     *)
(* returns on it), the locals l of the function, and used[f], the number   *)
(* of bytes the cursor advanced while field f was read.                    *)
(***************************************************************************)
\* `let x = asset.read(..)?` : on Ok bind the local and advance, on Err return
Bind(st, field, r, wrap) ==
    IF IsSome(st.err) THEN st
    ELSE IF r.ok
         THEN [st EXCEPT !.pos = r.pos,
                         !.used[field] = r.pos - st.pos,
                         !.l[field] = IF wrap THEN Some(r.val) ELSE r.val]
         ELSE [st EXCEPT !.err = Some(r.val)]

new_start(asset) ==
    [bytes |-> asset.bytes, pos |-> asset.pos,
     object_version_ue5 |-> asset.object_version_ue5,
     err |-> None,
     used |-> [f \in WireFields |-> 0],
     l |-> [f \in WireFields |-> None]]

\* lines 54-57
new_header(st) ==
    Let(Bind(st, "package_name", read_fname(st.bytes, st.pos), FALSE), LAMBDA s1 :
    Let(Bind(s1, "disk_size", read_i64(s1.bytes, s1.pos), FALSE), LAMBDA s2 :
        Bind(s2, "package_guid", read_guid(s2.bytes, s2.pos), FALSE)))

\* lines 59-62
new_cooked_hash(st, version) ==
    Let([st EXCEPT !.l.cooked_hash = None], LAMBDA s0 :
        IF version >= AddedCookedMD5Hash
        THEN Bind(s0, "cooked_hash", FMD5Hash_new(s0.bytes, s0.pos), TRUE)
        ELSE s0)

\* variant of lines 64-81: file_version_licensee_ue starts at 0, like its
\* neighbours, instead of -1
new_summary_zero_licensee(st, version) ==
    Let([st EXCEPT !.l.file_version = 0,
                   !.l.ue5_version = None,
                   !.l.file_version_licensee_ue = 0,
                   !.l.flags = 0,
                   !.l.custom_versions = None], LAMBDA s0 :
        IF version >= WorkspaceDomain
        THEN Let(Bind(s0, "file_version", read_i32(s0.bytes, s0.pos), FALSE), LAMBDA s1 :
             Let(IF version >= PackageFileSummaryVersionChange
                 THEN Bind(s1, "ue5_version", read_i32(s1.bytes, s1.pos), TRUE)
                 ELSE s1, LAMBDA s2 :
             Let(Bind(s2, "file_version_licensee_ue",
                      read_i32(s2.bytes, s2.pos), FALSE), LAMBDA s3 :
             Let(Bind(s3, "flags", read_u32(s3.bytes, s3.pos), FALSE), LAMBDA s4 :
                 Bind(s4, "custom_versions",
                      read_custom_version_array(s4.bytes, s4.pos), TRUE)))))
        ELSE s0)

\* lines 64-81
new_summary(st, version) ==
    Let([st EXCEPT !.l.file_version = 0,
                   !.l.ue5_version = None,
                   !.l.file_version_licensee_ue = -1,
                   !.l.flags = 0,
                   !.l.custom_versions = None], LAMBDA s0 :
        IF version >= WorkspaceDomain
        THEN Let(Bind(s0, "file_version", read_i32(s0.bytes, s0.pos), FALSE), LAMBDA s1 :
             Let(IF version >= PackageFileSummaryVersionChange
                 THEN Bind(s1, "ue5_version", read_i32(s1.bytes, s1.pos), TRUE)
                 ELSE s1, LAMBDA s2 :
             Let(Bind(s2, "file_version_licensee_ue",
                      read_i32(s2.bytes, s2.pos), FALSE), LAMBDA s3 :
             Let(Bind(s3, "flags", read_u32(s3.bytes, s3.pos), FALSE), LAMBDA s4 :
                 Bind(s4, "custom_versions",
                      read_custom_version_array(s4.bytes, s4.pos), TRUE)))))
        ELSE s0)

\* variant of lines 83-86: the gate compares with == instead of >=
new_imported_classes_exact(st, version) ==
    Let([st EXCEPT !.l.imported_classes = None], LAMBDA s0 :
        IF version = PackageImportedClasses
        THEN Bind(s0, "imported_classes", read_fname_array(s0.bytes, s0.pos), TRUE)
        ELSE s0)

\* lines 83-86
new_imported_classes(st, version) ==
    Let([st EXCEPT !.l.imported_classes = None], LAMBDA s0 :
        IF version >= PackageImportedClasses
        THEN Bind(s0, "imported_classes", read_fname_array(s0.bytes, s0.pos), TRUE)
        ELSE s0)

\* lines 88-92
new_package_build_dependencies(st) ==
    Let([st EXCEPT !.l.package_build_dependencies = None], LAMBDA s0 :
        IF s0.object_version_ue5 >= ASSETREGISTRY_PACKAGEBUILDDEPENDENCIES
        THEN Bind(s0, "package_build_dependencies",
                  read_fname_array(s0.bytes, s0.pos), TRUE)
        ELSE s0)

\* lines 50-109: Result<Self, Error>, with the cursor and the per-field use
new(asset, version) ==
    Let(new_header(new_start(asset)), LAMBDA s1 :
    Let(new_cooked_hash(s1, version), LAMBDA s2 :
    Let(new_summary(s2, version), LAMBDA s3 :
    Let(new_imported_classes(s3, version), LAMBDA s4 :
    Let(new_package_build_dependencies(s4), LAMBDA s5 :
        IF IsSome(s5.err)
        THEN [ok |-> FALSE, val |-> Unwrap(s5.err), pos |-> s5.pos, used |-> s5.used]
        ELSE [ok |-> TRUE, val |-> AssetPackageData(s5.l, version),
              pos |-> s5.pos, used |-> s5.used])))))

(***************************************************************************)
(* AssetPackageData::write.  The encoding state st carries the archive's   *)
(* bytes and object_version_ue5 and the first error.                       *)
(***************************************************************************)
RegistryError_version(field, version) ==
    [kind |-> "Version", field |-> field, version |-> version]

\* `asset.write_..(x)?`
Emit(st, b) == IF IsSome(st.err) THEN st ELSE [st EXCEPT !.bytes = @ \o b]
\* `.ok_or_else(|| e)?` on a None
Raise(st, e) == IF IsSome(st.err) THEN st ELSE [st EXCEPT !.err = Some(e)]

\* lines 116-119
write_header(self, st) ==
    Let(Emit(st, write_fname(self.package_name)), LAMBDA s1 :
    Let(Emit(s1, I64LE(self.disk_size)), LAMBDA s2 :
        Emit(s2, self.package_guid)))

\* variant of lines 121-128: a missing hash is written as sixteen zero bytes
\* (unwrap_or_default instead of ok_or_else)
write_cooked_hash_defaulting(self, st) ==
    IF self.version >= AddedCookedMD5Hash
    THEN IF IsSome(self.cooked_hash)
         THEN Emit(st, FMD5Hash_write(Unwrap(self.cooked_hash)))
         ELSE Emit(st, [k \in 1..16 |-> 0])
    ELSE st

\* lines 121-128
write_cooked_hash(self, st) ==
    IF self.version >= AddedCookedMD5Hash
    THEN IF IsSome(self.cooked_hash)
         THEN Emit(st, FMD5Hash_write(Unwrap(self.cooked_hash)))
         ELSE Raise(st, RegistryError_version("Cooked hash", self.version))
    ELSE st

\* variant of lines 130-151: the licensee version is written right after
\* file_version, before ue5_version
write_summary_licensee_first(self, st) ==
    IF self.version >= WorkspaceDomain
    THEN Let(Emit(st, I32LE(self.file_version)), LAMBDA s1 :
         Let(Emit(s1, I32LE(self.file_version_licensee_ue)), LAMBDA s2 :
         Let(IF self.version >= PackageFileSummaryVersionChange
             THEN IF IsSome(self.ue5_version)
                  THEN Emit(s2, I32LE(Unwrap(self.ue5_version)))
                  ELSE Raise(s2, RegistryError_version("UE5 Version", self.version))
             ELSE s2, LAMBDA s3 :
         Let(Emit(s3, U32LE(self.flags)), LAMBDA s4 :
             IF IsSome(self.custom_versions)
             THEN Let(Emit(s4, I32LE(Len(Unwrap(self.custom_versions)))), LAMBDA s5 :
                      Emit(s5, write_each("CustomVersion",
                                          Unwrap(self.custom_versions))))
             ELSE Raise(s4, RegistryError_version("Custom versions",
                                                  self.version))))))
    ELSE st

\* variant of lines 130-151: the block checks its two required fields before it
\* writes anything
write_summary_checked_first(self, st) ==
    IF self.version >= WorkspaceDomain
    THEN IF self.version >= PackageFileSummaryVersionChange
            /\ ~IsSome(self.ue5_version)
         THEN Raise(st, RegistryError_version("UE5 Version", self.version))
         ELSE IF ~IsSome(self.custom_versions)
         THEN Raise(st, RegistryError_version("Custom versions", self.version))
         ELSE Let(Emit(st, I32LE(self.file_version)), LAMBDA s1 :
              Let(IF self.version >= PackageFileSummaryVersionChange
                  THEN Emit(s1, I32LE(Unwrap(self.ue5_version)))
                  ELSE s1, LAMBDA s2 :
              Let(Emit(s2, I32LE(self.file_version_licensee_ue)), LAMBDA s3 :
              Let(Emit(s3, U32LE(self.flags)), LAMBDA s4 :
              Let(Emit(s4, I32LE(Len(Unwrap(self.custom_versions)))), LAMBDA s5 :
                  Emit(s5, write_each("CustomVersion",
                                      Unwrap(self.custom_versions))))))))
    ELSE st

\* lines 130-151
write_summary(self, st) ==
    IF self.version >= WorkspaceDomain
    THEN Let(Emit(st, I32LE(self.file_version)), LAMBDA s1 :
         Let(IF self.version >= PackageFileSummaryVersionChange
             THEN IF IsSome(self.ue5_version)
                  THEN Emit(s1, I32LE(Unwrap(self.ue5_version)))
                  ELSE Raise(s1, RegistryError_version("UE5 Version", self.version))
             ELSE s1, LAMBDA s2 :
         Let(Emit(s2, I32LE(self.file_version_licensee_ue)), LAMBDA s3 :
         Let(Emit(s3, U32LE(self.flags)), LAMBDA s4 :
             IF IsSome(self.custom_versions)
             THEN Let(Emit(s4, I32LE(Len(Unwrap(self.custom_versions)))), LAMBDA s5 :
                      Emit(s5, write_each("CustomVersion",
                                          Unwrap(self.custom_versions))))
             ELSE Raise(s4, RegistryError_version("Custom versions",
                                                  self.version))))))
    ELSE st

\* lines 153-161: the elements are written, no count precedes them
write_imported_classes(self, st) ==
    IF self.version >= PackageImportedClasses
    THEN IF IsSome(self.imported_classes)
         THEN Emit(st, write_each("FName", Unwrap(self.imported_classes)))
         ELSE Raise(st, RegistryError_version("Imported classes", self.version))
    ELSE st

\* lines 163-174
write_package_build_dependencies(self, st) ==
    IF st.object_version_ue5 >= ASSETREGISTRY_PACKAGEBUILDDEPENDENCIES
    THEN IF IsSome(self.package_build_dependencies)
         THEN Let(Emit(st, I32LE(Len(Unwrap(self.package_build_dependencies)))),
                  LAMBDA s1 :
                  Emit(s1, write_each("FName",
                                      Unwrap(self.package_build_dependencies))))
         ELSE Emit(st, I32LE(0))
    ELSE st

\* lines 112-177: the archive's bytes afterwards and Result<(), Error>
write(self, asset) ==
    Let(write_header(self, [bytes |-> asset.bytes,
                            object_version_ue5 |-> asset.object_version_ue5,
                            err |-> None]), LAMBDA s1 :
    Let(write_cooked_hash(self, s1), LAMBDA s2 :
    Let(write_summary(self, s2), LAMBDA s3 :
    Let(write_imported_classes(self, s3), LAMBDA s4 :
    Let(write_package_build_dependencies(self, s4), LAMBDA s5 :
        [bytes |-> s5.bytes, ok |-> ~IsSome(s5.err), err |-> s5.err])))))

(***************************************************************************)
(* Values the model draws records and input archives from.                 *)
(***************************************************************************)
RECURSIVE SeqsUpTo(_, _)
SeqsUpTo(S, n) ==
    IF n = 0 THEN {<<>>}
    ELSE LET shorter == SeqsUpTo(S, n - 1)
         IN  shorter \cup {Append(q, x) : q \in {r \in shorter : Len(r) = n - 1}, x \in S}

Opt(S) == {None} \cup {Some(x) : x \in S}

NameA == [index |-> 1, number |-> 0]
NameB == [index |-> 2, number |-> 1]
PackageName == [index |-> 3, number |-> 0]
GuidA == [k \in 1..16 |-> 17]
GuidB == [k \in 1..16 |-> 34]
HashA == [k \in 1..16 |-> 171]
CustomVersionA == [guid |-> GuidB, version |-> 3]

\* an authored or stored package: every field has a value
PackageValues ==
    [package_name : {PackageName},
     disk_size : {70000},
     package_guid : {GuidA},
     cooked_hash : {HashA},
     file_version : {522},
     ue5_version : {1004},
     file_version_licensee_ue : {0, -1},
     flags : {0},
     custom_versions : SeqsUpTo({CustomVersionA}, MaxSeqLen),
     imported_classes : SeqsUpTo({NameA, NameB}, MaxSeqLen),
     package_build_dependencies : SeqsUpTo({NameB}, MaxSeqLen)]

\* records a builder can hand to write: any optional field may be missing,
\* the plain integers hold a value or what new leaves in them
BuiltRecords ==
    [package_name : {PackageName},
     disk_size : {70000},
     package_guid : {GuidA},
     cooked_hash : Opt({HashA}),
     file_version : {522, 0},
     ue5_version : Opt({1004}),
     file_version_licensee_ue : {0, -1},
     flags : {0},
     custom_versions : Opt(SeqsUpTo({CustomVersionA}, MaxSeqLen)),
     imported_classes : Opt(SeqsUpTo({NameA, NameB}, MaxSeqLen)),
     package_build_dependencies : Opt(SeqsUpTo({NameB}, MaxSeqLen)),
     version : RegistryVersions]

\* the bytes of a stored package under a version context: each gated field
\* is there when its gate holds, each sequence behind its i32 count
StoredBytes(p, version, object_version_ue5) ==
    write_fname(p.package_name) \o I64LE(p.disk_size) \o p.package_guid
    \o (IF version >= AddedCookedMD5Hash THEN p.cooked_hash ELSE <<>>)
    \o (IF version >= WorkspaceDomain
        THEN I32LE(p.file_version)
             \o (IF version >= PackageFileSummaryVersionChange
                 THEN I32LE(p.ue5_version) ELSE <<>>)
             \o I32LE(p.file_version_licensee_ue) \o U32LE(p.flags)
             \o write_array("CustomVersion", p.custom_versions)
        ELSE <<>>)
    \o (IF version >= PackageImportedClasses
        THEN write_array("FName", p.imported_classes) ELSE <<>>)
    \o (IF object_version_ue5 >= ASSETREGISTRY_PACKAGEBUILDDEPENDENCIES
        THEN write_array("FName", p.package_build_dependencies) ELSE <<>>)

\* what the writer's archive already holds before write is called
Prefixes == {<<>>, <<202, 254>>}

(***************************************************************************)
(* State of a codec session.                                               *)
(***************************************************************************)
VARIABLES
    origin,      \* "stored": the record comes from an archive; "built": from a builder
    stored,      \* the package values the input archive was laid out from
    version,     \* registry version of the session
    reader,      \* input archive  [bytes, pos, object_version_ue5]
    parsed,      \* Option: what new returned on reader
    self,        \* Option: the AssetPackageData in memory
    writer,      \* output archive [bytes, start, object_version_ue5]
    written,     \* Option: what write returned
    reparsed,    \* Option: what new returned on the written bytes
    other        \* Option: a second session decoding the same package
                 \* under another version context [version, object_version_ue5, res]

codec_vars == <<origin, stored, version, reader, parsed, self, writer, written,
                reparsed, other>>

NoPackage == [package_name |-> PackageName]

InitStored ==
    /\ origin = "stored"
    /\ stored \in PackageValues
    /\ version \in RegistryVersions
    /\ \E ov \in ObjectVersions, cut \in 0..MaxCut :
          \E full \in {StoredBytes(stored, version, ov)} :
              /\ reader = [bytes |-> SubSeq(full, 1, Len(full) - cut), pos |-> 0,
                           object_version_ue5 |-> ov]
              /\ writer = [bytes |-> <<>>, start |-> 0, object_version_ue5 |-> ov]
    /\ parsed = None
    /\ self = None
    /\ written = None
    /\ reparsed = None
    /\ other = None

InitBuilt ==
    /\ origin = "built"
    /\ stored = NoPackage
    /\ \E rec \in BuiltRecords :
          /\ self = Some(rec)
          /\ version = rec.version
    /\ \E ov \in ObjectVersions, pre \in Prefixes :
          /\ reader = [bytes |-> <<>>, pos |-> 0, object_version_ue5 |-> ov]
          /\ writer = [bytes |-> pre, start |-> Len(pre), object_version_ue5 |-> ov]
    /\ parsed = None
    /\ written = None
    /\ reparsed = None
    /\ other = None

(***************************************************************************)
(* State of process_modfiles (mod_processing/mod.rs) and of the UI thread  *)
(* that shares the ModLoaderAppData mutex with it.                         *)
(***************************************************************************)
VARIABLES
    pc,                \* the statement process_modfiles is at
    mutex,             \* owner of the parking_lot mutex: "free", "worker", "ui"
    ui,                \* the UI thread: "idle" or "rendering" (holds the lock)
    mod_files,         \* argument: the files to process
    set_enabled,       \* argument
    mods_read,         \* result of read_pak_files
    filter,            \* mod ids of mods_read
    data,              \* ModLoaderAppData behind the mutex
    index_files_info,  \* result of gather_index_files
    index_files,       \* result of download_index_files
    warnings           \* the warnings collected so far

mod_vars == <<pc, mutex, ui, mod_files, set_enabled, mods_read, filter, data,
              index_files_info, index_files, warnings>>


\* AssetPackageData::new(&mut reader, version)
Decode ==
    /\ origin = "stored"
    /\ parsed = None
    /\ \E res \in {new(reader, version)} :
          /\ parsed' = Some(res)
          /\ reader' = [reader EXCEPT !.pos = res.pos]
          /\ self' = IF res.ok THEN Some(res.val) ELSE None
    /\ UNCHANGED <<origin, stored, version, writer, written, reparsed, other>>
    /\ UNCHANGED mod_vars
    /\ UNCHANGED mod_vars

\* a second session decodes the same package as stored under a context that
\* differs from the first on one axis
DecodeOther ==
    /\ origin = "stored"
    /\ parsed # None
    /\ written = None
    /\ other = None
    /\ \E v2 \in RegistryVersions, ov2 \in ObjectVersions :
          /\ \/ v2 # version /\ ov2 = reader.object_version_ue5
             \/ v2 = version /\ ov2 # reader.object_version_ue5
          /\ other' = Some([version |-> v2, object_version_ue5 |-> ov2,
                            res |-> new([bytes |-> StoredBytes(stored, v2, ov2),
                                         pos |-> 0,
                                         object_version_ue5 |-> ov2], v2)])
    /\ UNCHANGED <<origin, stored, version, reader, parsed, self, writer, written,
                   reparsed>>
    /\ UNCHANGED mod_vars

\* self.write(&mut writer)
Encode ==
    /\ self # None
    /\ written = None
    /\ other = None
    /\ \E res \in {write(Unwrap(self), writer)} :
          /\ writer' = [writer EXCEPT !.bytes = res.bytes]
          /\ written' = Some([ok |-> res.ok, err |-> res.err])
    /\ UNCHANGED <<origin, stored, version, reader, parsed, self, reparsed, other>>
    /\ UNCHANGED mod_vars

\* AssetPackageData::new on what write produced, same version context
Redecode ==
    /\ written # None
    /\ Unwrap(written).ok
    /\ reparsed = None
    /\ reparsed' = Some(new([bytes |-> writer.bytes, pos |-> writer.start,
                             object_version_ue5 |-> writer.object_version_ue5],
                            Unwrap(self).version))
    /\ UNCHANGED <<origin, stored, version, reader, parsed, self, writer, written,
                   other>>
    /\ UNCHANGED mod_vars


ModFiles == {"a.pak", "b.pak"}
EmptyAppData == [mods |-> {}, enabled |-> {}, picked |-> {}, top |-> {}, index |-> {}]

\* the mod manager before process_modfiles is called
ModIdle ==
    /\ pc = "idle"
    /\ mutex = "free"
    /\ ui = "idle"
    /\ mod_files = {}
    /\ set_enabled = FALSE
    /\ mods_read = {}
    /\ filter = {}
    /\ data = EmptyAppData
    /\ index_files_info = {}
    /\ index_files = {}
    /\ warnings = <<>>

\* no codec session
CodecIdle ==
    /\ origin = "none"
    /\ stored = NoPackage
    /\ version = AddedCookedMD5Hash
    /\ reader = [bytes |-> <<>>, pos |-> 0,
                 object_version_ue5 |-> ASSETREGISTRY_PACKAGEBUILDDEPENDENCIES]
    /\ writer = [bytes |-> <<>>, start |-> 0,
                 object_version_ue5 |-> ASSETREGISTRY_PACKAGEBUILDDEPENDENCIES]
    /\ parsed = None
    /\ self = None
    /\ written = None
    /\ reparsed = None
    /\ other = None

\* process_modfiles(mod_files, data, set_enabled) is called (line 20-27)
InitMod ==
    /\ CodecIdle
    /\ pc = "read_pak_files"
    /\ mutex = "free"
    /\ ui = "idle"
    /\ mod_files \in SUBSET ModFiles
    /\ set_enabled \in BOOLEAN
    /\ mods_read = {}
    /\ filter = {}
    /\ data = EmptyAppData
    /\ index_files_info = {}
    /\ index_files = {}
    /\ warnings = <<>>

\* data.lock(): blocks until the mutex is free; parking_lot's mutex is not
\* reentrant, so a thread that holds it waits for ever
lock(who) ==
    /\ mutex = "free"
    /\ mutex' = who

\* line 30-31: read_pak_files(mod_files), no lock involved; files that
\* cannot be read become warnings
ReadPakFiles ==
    /\ pc = "read_pak_files"
    /\ \E ok \in SUBSET mod_files :
          /\ mods_read' = ok
          /\ warnings' = warnings \o
                 (IF ok = mod_files THEN <<>> ELSE <<"read_pak_files">>)
    /\ pc' = "lock"
    /\ UNCHANGED <<mutex, ui, mod_files, set_enabled, filter, data,
                   index_files_info, index_files>>
    /\ UNCHANGED codec_vars

\* line 33-34: let mut data_guard = data.lock(); filter = mods_read.keys()
Lock ==
    /\ pc = "lock"
    /\ lock("worker")
    /\ filter' = mods_read
    /\ pc' = "insert_mods_from_readdata"
    /\ UNCHANGED <<ui, mod_files, set_enabled, mods_read, data,
                   index_files_info, index_files, warnings>>
    /\ UNCHANGED codec_vars

\* line 37: insert_mods_from_readdata(&mods_read, &mut data_guard, set_enabled)
InsertModsFromReaddata ==
    /\ pc = "insert_mods_from_readdata"
    /\ data' = [data EXCEPT !.mods = @ \cup mods_read,
                            !.enabled = IF set_enabled THEN @ \cup mods_read ELSE @]
    /\ pc' = "auto_pick_versions"
    /\ UNCHANGED <<mutex, ui, mod_files, set_enabled, mods_read, filter,
                   index_files_info, index_files, warnings>>
    /\ UNCHANGED codec_vars

\* line 40: auto_pick_versions(&mut data_guard)
AutoPickVersions ==
    /\ pc = "auto_pick_versions"
    /\ data' = [data EXCEPT !.picked = data.mods]
    /\ pc' = "set_mod_data_from_version"
    /\ UNCHANGED <<mutex, ui, mod_files, set_enabled, mods_read, filter,
                   index_files_info, index_files, warnings>>
    /\ UNCHANGED codec_vars

\* line 43: set_mod_data_from_version(&mut data_guard, &filter)
SetModDataFromVersion ==
    /\ pc = "set_mod_data_from_version"
    /\ data' = [data EXCEPT !.top = @ \cup (filter \cap data.picked)]
    /\ pc' = "gather_index_files"
    /\ UNCHANGED <<mutex, ui, mod_files, set_enabled, mods_read, filter,
                   index_files_info, index_files, warnings>>
    /\ UNCHANGED codec_vars

\* line 48: gather_index_files(&data_guard, &filter): some mods name an index file
GatherIndexFiles ==
    /\ pc = "gather_index_files"
    /\ index_files_info' \in SUBSET (filter \cap data.mods)
    /\ pc' = "drop"
    /\ UNCHANGED <<mutex, ui, mod_files, set_enabled, mods_read, filter, data,
                   index_files, warnings>>
    /\ UNCHANGED codec_vars

\* variant of line 51: the guard is kept across the download
DropGuardForgotten ==
    /\ pc = "drop"
    /\ pc' = "download_index_files"
    /\ UNCHANGED <<mutex, ui, mod_files, set_enabled, mods_read, filter, data,
                   index_files_info, index_files, warnings>>
    /\ UNCHANGED codec_vars

\* line 51: drop(data_guard)
DropGuard ==
    /\ pc = "drop"
    /\ mutex' = "free"
    /\ pc' = "download_index_files"
    /\ UNCHANGED <<ui, mod_files, set_enabled, mods_read, filter, data,
                   index_files_info, index_files, warnings>>
    /\ UNCHANGED codec_vars

\* line 54-55: download_index_files(index_files_info), blocking network I/O;
\* downloads that fail become warnings
DownloadIndexFiles ==
    /\ pc = "download_index_files"
    /\ \E got \in SUBSET index_files_info :
          /\ index_files' = got
          /\ warnings' = warnings \o
                 (IF got = index_files_info THEN <<>> ELSE <<"download_index_files">>)
    /\ pc' = "relock"
    /\ UNCHANGED <<mutex, ui, mod_files, set_enabled, mods_read, filter, data,
                   index_files_info>>
    /\ UNCHANGED codec_vars

\* line 57: let mut data_guard = data.lock()
Relock ==
    /\ pc = "relock"
    /\ lock("worker")
    /\ pc' = "insert_index_file_data"
    /\ UNCHANGED <<ui, mod_files, set_enabled, mods_read, filter, data,
                   index_files_info, index_files, warnings>>
    /\ UNCHANGED codec_vars

\* line 60-61: insert_index_file_data(&index_files, &mut data_guard)
InsertIndexFileData ==
    /\ pc = "insert_index_file_data"
    /\ data' = [data EXCEPT !.index = @ \cup (index_files \cap data.mods)]
    /\ pc' = "return"
    /\ UNCHANGED <<mutex, ui, mod_files, set_enabled, mods_read, filter,
                   index_files_info, index_files, warnings>>
    /\ UNCHANGED codec_vars

\* line 63-64: warnings is returned, data_guard goes out of scope
Return ==
    /\ pc = "return"
    /\ mutex' = "free"
    /\ pc' = "done"
    /\ UNCHANGED <<ui, mod_files, set_enabled, mods_read, filter, data,
                   index_files_info, index_files, warnings>>
    /\ UNCHANGED codec_vars

\* the UI thread takes the lock to render a frame ...
UiLock ==
    /\ ui = "idle"
    /\ lock("ui")
    /\ ui' = "rendering"
    /\ UNCHANGED <<pc, mod_files, set_enabled, mods_read, filter, data,
                   index_files_info, index_files, warnings>>
    /\ UNCHANGED codec_vars

\* ... and releases it when the frame is drawn
UiUnlock ==
    /\ ui = "rendering"
    /\ mutex' = "free"
    /\ ui' = "idle"
    /\ UNCHANGED <<pc, mod_files, set_enabled, mods_read, filter, data,
                   index_files_info, index_files, warnings>>
    /\ UNCHANGED codec_vars

vars == <<codec_vars, mod_vars>>

Init == ModIdle /\ (InitStored \/ InitBuilt)

Next ==
    \/ Decode
    \/ DecodeOther
    \/ Encode
    \/ Redecode

Spec == Init /\ [][Next]_vars

NextMod ==
    \/ ReadPakFiles
    \/ Lock
    \/ InsertModsFromReaddata
    \/ AutoPickVersions
    \/ SetModDataFromVersion
    \/ GatherIndexFiles
    \/ DropGuard
    \/ DownloadIndexFiles
    \/ Relock
    \/ InsertIndexFileData
    \/ Return
    \/ UiLock
    \/ UiUnlock

SpecMod == InitMod /\ [][NextMod]_vars


(***************************************************************************)
(* Vocabulary of the properties.                                           *)
(***************************************************************************)
Rec == Unwrap(self)
W == Unwrap(written)
P == Unwrap(parsed)
R == Unwrap(reparsed)
O == Unwrap(other)

\* the bytes the write call added to the archive
Out == SubSeq(writer.bytes, writer.start + 1, Len(writer.bytes))

\* the presence rule of each gated field, as the data-model table states it
Gate(f, v, ov) ==
    CASE f = "cooked_hash" -> v >= AddedCookedMD5Hash
      [] f \in {"file_version", "file_version_licensee_ue", "flags",
                "custom_versions"} -> v >= WorkspaceDomain
      [] f = "ue5_version" ->
             v >= WorkspaceDomain /\ v >= PackageFileSummaryVersionChange
      [] f = "imported_classes" -> v >= PackageImportedClasses
      [] f = "package_build_dependencies" ->
             ov >= ASSETREGISTRY_PACKAGEBUILDDEPENDENCIES

GatedFields == OptionFields \cup PlainGatedFields
AllGatesHold(v, ov) == \A f \in GatedFields : Gate(f, v, ov)

\* the fields write insists on, in wire order, with the name the error gives them
Required ==
    << [field |-> "cooked_hash", name |-> "Cooked hash"],
       [field |-> "ue5_version", name |-> "UE5 Version"],
       [field |-> "custom_versions", name |-> "Custom versions"],
       [field |-> "imported_classes", name |-> "Imported classes"] >>

Missing(rec, ov) ==
    {i \in DOMAIN Required :
        Gate(Required[i].field, rec.version, ov) /\ rec[Required[i].field] = None}

FirstMissing(rec, ov) ==
    CHOOSE i \in Missing(rec, ov) : \A j \in Missing(rec, ov) : i <= j

OrEmpty(o) == IF IsSome(o) THEN Unwrap(o) ELSE <<>>

(***************************************************************************)
(* C1.  Decode-then-encode is byte-identical: when new decodes a record    *)
(* from an archive, consuming all of it, and the record is written         *)
(* unmodified under the same version context, write succeeds and emits     *)
(* exactly the bytes that were read.                                       *)
(***************************************************************************)
DecodeThenEncodeIdentical ==
    (/\ origin = "stored"
     /\ parsed # None /\ P.ok /\ P.pos = Len(reader.bytes)
     /\ written # None)
    => (W.ok /\ writer.bytes = reader.bytes)

(***************************************************************************)
(* C2.  Encode-then-decode round trip: a record whose optional fields are  *)
(* present exactly where the gates of its version context hold is written  *)
(* successfully, and decoding what was written under the same context      *)
(* succeeds and yields a record equal to the original in every field.      *)
(***************************************************************************)
GatesConsistent(rec, ov) ==
    /\ \A f \in OptionFields : IsSome(rec[f]) <=> Gate(f, rec.version, ov)
    /\ ~Gate("file_version", rec.version, ov) =>
          /\ rec.file_version = 0
          /\ rec.file_version_licensee_ue = -1
          /\ rec.flags = 0

\* C2: write then new under the same context gives the record back
EncodeThenDecodeRoundTrip ==
    (/\ origin = "built"
     /\ GatesConsistent(Rec, writer.object_version_ue5)
     /\ written # None)
    => /\ W.ok
       /\ reparsed # None => (R.ok /\ R.val = Rec)

(***************************************************************************)
(* C3.  Missing-field failure: when a field among cooked_hash,             *)
(* ue5_version, custom_versions, imported_classes is None although the     *)
(* record's registry version is at or above its threshold, write returns   *)
(* RegistryError::version naming the first such field in wire order and    *)
(* the record's registry version; when none is missing write returns Ok.   *)
(***************************************************************************)
MissingFieldFailure ==
    written # None =>
        IF Missing(Rec, writer.object_version_ue5) = {}
        THEN W.ok
        ELSE /\ ~W.ok
             /\ Unwrap(W.err) =
                  RegistryError_version(
                      Required[FirstMissing(Rec, writer.object_version_ue5)].name,
                      Rec.version)

\* write has failed on UE5 Version while two later required fields are missing too
MissingFieldWitness ==
    /\ written # None
    /\ ~W.ok
    /\ Unwrap(W.err).field = "UE5 Version"
    /\ IsSome(Rec.cooked_hash)
    /\ Rec.custom_versions = None
    /\ Rec.imported_classes = None


(***************************************************************************)
(* C4.  Write omission: for every gated field whose version axis is below  *)
(* the threshold, write emits no bytes for the field whether or not the    *)
(* record holds a value for it (the result and the bytes are those of the  *)
(* record without the value), and decoding the output under the same       *)
(* version context succeeds with None in an Option field.                  *)
(***************************************************************************)
Without(rec, f) ==
    IF f \in OptionFields THEN [rec EXCEPT ![f] = None]
    ELSE [rec EXCEPT ![f] = 0]

\* C4: a gated-off field adds no bytes and decodes back as None
WriteOmission ==
    written # None =>
        \A f \in GatedFields :
            ~Gate(f, Rec.version, writer.object_version_ue5) =>
                /\ LET bare == write(Without(Rec, f),
                                     [writer EXCEPT !.bytes = SubSeq(writer.bytes, 1,
                                                                     writer.start)])
                   IN  /\ bare.ok = W.ok
                       /\ bare.bytes = writer.bytes
                /\ (reparsed # None /\ f \in OptionFields) =>
                       (R.ok /\ R.val[f] = None)

(***************************************************************************)
(* C5.  Wire field order.  As claimed: with all gates holding, encode and  *)
(* decode process package_name, disk_size, package_guid, cooked_hash,      *)
(* file_version, file_version_licensee, ue5_version, flags,                *)
(* custom_versions, imported_classes, package_build_dependencies.          *)
(* As the code has it: ue5_version comes right after file_version and      *)
(* before file_version_licensee.                                           *)
(***************************************************************************)
HeadInTableOrder(rec) ==
    write_fname(rec.package_name) \o I64LE(rec.disk_size) \o rec.package_guid
    \o Unwrap(rec.cooked_hash)
    \o I32LE(rec.file_version) \o I32LE(rec.file_version_licensee_ue)
    \o I32LE(Unwrap(rec.ue5_version)) \o U32LE(rec.flags)
    \o write_array("CustomVersion", Unwrap(rec.custom_versions))

HeadInCodeOrder(rec) ==
    write_fname(rec.package_name) \o I64LE(rec.disk_size) \o rec.package_guid
    \o Unwrap(rec.cooked_hash)
    \o I32LE(rec.file_version) \o I32LE(Unwrap(rec.ue5_version))
    \o I32LE(rec.file_version_licensee_ue) \o U32LE(rec.flags)
    \o write_array("CustomVersion", Unwrap(rec.custom_versions))

\* the output is head, then the imported classes (with or without a count in
\* front of them), then the build dependencies
EncodedInOrder(rec, head) ==
    \E count \in {<<>>, I32LE(Len(Unwrap(rec.imported_classes)))} :
        Out = head \o count
                \o write_each("FName", Unwrap(rec.imported_classes))
                \o write_array("FName", OrEmpty(rec.package_build_dependencies))

\* the bytes new consumed are head, then the two counted name sequences
DecodedInOrder(bytes, res, head) ==
    SubSeq(bytes, 1, res.pos) =
        head \o write_array("FName", Unwrap(res.val.imported_classes))
             \o write_array("FName", Unwrap(res.val.package_build_dependencies))

\* C5 as claimed: file_version, file_version_licensee, ue5_version, flags
WireOrderAsClaimed ==
    /\ (written # None /\ W.ok
        /\ AllGatesHold(Rec.version, writer.object_version_ue5))
       => EncodedInOrder(Rec, HeadInTableOrder(Rec))
    /\ (parsed # None /\ P.ok
        /\ AllGatesHold(version, reader.object_version_ue5))
       => DecodedInOrder(reader.bytes, P, HeadInTableOrder(P.val))

\* C5 as amended: file_version, ue5_version, file_version_licensee, flags
WireOrderOfCode ==
    /\ (written # None /\ W.ok
        /\ AllGatesHold(Rec.version, writer.object_version_ue5))
       => EncodedInOrder(Rec, HeadInCodeOrder(Rec))
    /\ (parsed # None /\ P.ok
        /\ AllGatesHold(version, reader.object_version_ue5))
       => DecodedInOrder(reader.bytes, P, HeadInCodeOrder(P.val))

\* a record decoded with every gate holding has been written back
WireOrderWitness ==
    /\ origin = "stored"
    /\ parsed # None /\ P.ok
    /\ AllGatesHold(version, reader.object_version_ue5)
    /\ written # None /\ W.ok
    /\ Rec.imported_classes # Some(<<>>)
    /\ Rec.package_build_dependencies # Some(<<>>)
    /\ Rec.custom_versions # Some(<<>>)

(***************************************************************************)
(* C6.  Monotonic gating: of two successful decodes under version contexts *)
(* that differ on one axis, the one under the lower version populates a    *)
(* subset of the optional fields the other populates.                      *)
(***************************************************************************)
Populated(res) ==
    {f \in OptionFields : IsSome(res.val[f])}
        \cup {f \in PlainGatedFields : res.used[f] > 0}

MonotonicGating ==
    (parsed # None /\ other # None /\ P.ok /\ O.res.ok) =>
        IF version < O.version \/ reader.object_version_ue5 < O.object_version_ue5
        THEN Populated(P) \subseteq Populated(O.res)
        ELSE Populated(O.res) \subseteq Populated(P)

\* the two decodes populated different, non-empty sets of fields
MonotonicGatingWitness ==
    /\ parsed # None /\ other # None /\ P.ok /\ O.res.ok
    /\ version < O.version
    /\ Populated(P) # {}
    /\ Populated(P) # Populated(O.res)

(***************************************************************************)
(* C7.  Build-dependency leniency: with the writer's object_version_ue5 at *)
(* or above ASSETREGISTRY_PACKAGEBUILDDEPENDENCIES and                     *)
(* package_build_dependencies None, write fails only for another missing   *)
(* field, it ends its output with one i32 zero, and decoding the output    *)
(* under the same context yields Some(empty sequence).                     *)
(***************************************************************************)
BuildDependencyLeniency ==
    (/\ written # None
     /\ writer.object_version_ue5 >= ASSETREGISTRY_PACKAGEBUILDDEPENDENCIES
     /\ Rec.package_build_dependencies = None)
    => /\ W.ok <=> Missing(Rec, writer.object_version_ue5) = {}
       /\ W.ok => /\ Len(Out) >= 4
                  /\ SubSeq(Out, Len(Out) - 3, Len(Out)) = I32LE(0)
       /\ reparsed # None =>
              (R.ok /\ R.val.package_build_dependencies = Some(<<>>))


(***************************************************************************)
(* C8.  Decode leaves gated-off fields alone.  As claimed: for every field *)
(* whose gate fails, new consumes no bytes and the record holds the field  *)
(* as absent.  As the code has it: that is so for the Option fields, while *)
(* file_version, file_version_licensee_ue and flags are plain integers and *)
(* hold 0, -1 and 0; the fields whose gates hold are read all the same.    *)
(***************************************************************************)
\* only a field declared Option<..> can hold "absent"
HoldsAbsent(rec, f) == f \in OptionFields /\ rec[f] = None

RECURSIVE SumUsed(_, _)
SumUsed(used, fields) ==
    IF fields = {} THEN 0
    ELSE LET f == CHOOSE g \in fields : TRUE
         IN  used[f] + SumUsed(used, fields \ {f})

\* C8 as claimed: every gated-off field costs no bytes and is held as absent
GatedOffAbsentAsClaimed ==
    (parsed # None /\ P.ok) =>
        \A f \in GatedFields :
            ~Gate(f, version, reader.object_version_ue5) =>
                (P.used[f] = 0 /\ HoldsAbsent(P.val, f))

\* C8 as amended: gated-off fields cost no bytes; Option fields are None, the
\* plain integers hold 0, -1, 0; fields whose gates hold are read
GatedOffLeftAtDefault ==
    (parsed # None /\ P.ok) =>
        /\ \A f \in GatedFields :
              IF Gate(f, version, reader.object_version_ue5)
              THEN P.used[f] > 0 /\ (f \in OptionFields => IsSome(P.val[f]))
              ELSE /\ P.used[f] = 0
                   /\ f \in OptionFields => P.val[f] = None
                   /\ f = "file_version" => P.val[f] = 0
                   /\ f = "file_version_licensee_ue" => P.val[f] = -1
                   /\ f = "flags" => P.val[f] = 0
        /\ P.pos = SumUsed(P.used, WireFields)

\* a decode that skipped the summary block but read the build dependencies
GatedOffWitness ==
    /\ parsed # None /\ P.ok
    /\ version < WorkspaceDomain
    /\ version >= AddedCookedMD5Hash
    /\ IsSome(P.val.package_build_dependencies)
    /\ P.val.package_build_dependencies # Some(<<>>)

(***************************************************************************)
(* C9.  Validation and output.  As claimed: when write returns a           *)
(* missing-required-field error the archive has received no bytes from the *)
(* call.  As the code has it: presence is checked field by field between   *)
(* the writes, so the archive has received the fields that precede the     *)
(* missing one in wire order (package_name, disk_size and package_guid at  *)
(* least) and nothing of the missing field or the fields after it; what    *)
(* the archive held before the call is untouched.                          *)
(***************************************************************************)
\* C9 as claimed: a missing-field error leaves the archive as it was
NoBytesOnMissingField ==
    (written # None /\ ~W.ok) => Len(writer.bytes) = writer.start

BytesBefore(rec, name) ==
    write_fname(rec.package_name) \o I64LE(rec.disk_size) \o rec.package_guid
    \o (IF name # "Cooked hash" /\ rec.version >= AddedCookedMD5Hash
        THEN Unwrap(rec.cooked_hash) ELSE <<>>)
    \o (IF name \in {"UE5 Version", "Custom versions", "Imported classes"}
           /\ rec.version >= WorkspaceDomain
        THEN I32LE(rec.file_version) ELSE <<>>)
    \o (IF name \in {"Custom versions", "Imported classes"}
           /\ rec.version >= PackageFileSummaryVersionChange
        THEN I32LE(Unwrap(rec.ue5_version)) ELSE <<>>)
    \o (IF name \in {"Custom versions", "Imported classes"}
           /\ rec.version >= WorkspaceDomain
        THEN I32LE(rec.file_version_licensee_ue) \o U32LE(rec.flags) ELSE <<>>)
    \o (IF name = "Imported classes" /\ rec.version >= WorkspaceDomain
        THEN write_array("CustomVersion", Unwrap(rec.custom_versions)) ELSE <<>>)

\* C9 as amended: on a missing-field error the archive has received exactly the
\* fields before the missing one
PrecedingFieldsOnMissingField ==
    (written # None /\ ~W.ok) =>
        /\ Out = BytesBefore(Rec, Unwrap(W.err).field)
        /\ Len(Out) >= 32
        /\ SubSeq(writer.bytes, 1, writer.start) \in Prefixes

\* write failed on the last required field into an archive that held bytes
PartialWriteWitness ==
    /\ written # None /\ ~W.ok
    /\ Unwrap(W.err).field = "Imported classes"
    /\ Rec.version >= PackageFileSummaryVersionChange
    /\ writer.start > 0

(***************************************************************************)
(* C10.  Locking discipline of process_modfiles: the worker does not hold  *)
(* the mutex while read_pak_files or download_index_files run, nor when it *)
(* is about to lock (so it never waits for itself), nor after it returned; *)
(* it holds it from insert_mods_from_readdata to the drop after            *)
(* gather_index_files, and from insert_index_file_data to the return.      *)
(***************************************************************************)
MutexDiscipline ==
    /\ pc \in {"read_pak_files", "lock", "download_index_files", "relock", "done"}
          => mutex # "worker"
    /\ pc \in {"insert_mods_from_readdata", "auto_pick_versions",
               "set_mod_data_from_version", "gather_index_files", "drop",
               "insert_index_file_data", "return"}
          => mutex = "worker"

\* the UI thread holds the mutex while the index files are being downloaded
UiRendersDuringDownload ==
    /\ pc = "download_index_files"
    /\ mutex = "ui"
    /\ ui = "rendering"
    /\ index_files_info # {}

=============================================================================
